---- MODULE Spec2Model ----
(***************************************************************************)
(* Model of rhai's native function registration adapter                    *)
(* (src/func/register.rs): the argument extractors by_ref / by_value, the  *)
(* check_constant guard and the uniform closure built by                   *)
(* into_callable_function for every {Pure, Method} x {context} x           *)
(* {fallible} x arity variant generated by def_register!.                  *)
(* The default feature set is modelled (neither no_index nor no_object,    *)
(* metadata enabled).                                                      *)
(***************************************************************************)
EXTENDS Integers, Sequences, FiniteSets, TLC

\* Largest arity of a registered function (the source generates 0..20).
MaxArity == 3
\* Largest arity of a registered function in the unchecked-arguments
\* specification SpecAny.
MaxAnyArity == 2

(***************************************************************************)
(* Types and type identities                                               *)
(***************************************************************************)
I64 == <<"i64">>
IMMUTABLE_STRING == <<"ImmutableString">>
REF_STR == <<"&str">>
OWNED_STRING == <<"String">>
UNIT_TYPE == <<"()">>

RhaiResultOf(T) == <<"Result">> \o T

TypeId_of(T) == [type_id |-> T]

\* Parameter types a by_value parameter may have, and those a &mut receiver may have.
ValueParamTypes == {I64, REF_STR, OWNED_STRING}
MutParamTypes == {I64, IMMUTABLE_STRING}
ReturnTypes == {I64, IMMUTABLE_STRING}

\* The runtime type a Dynamic must hold for a parameter of type T.
RuntimeOf(T) == IF T \in {REF_STR, OWNED_STRING, IMMUTABLE_STRING} THEN IMMUTABLE_STRING ELSE T

(***************************************************************************)
(* Dynamic values                                                          *)
(***************************************************************************)
Dyn(ty, val, access, shared) == [ty |-> ty, val |-> val, access |-> access, shared |-> shared]

\* Dynamic::UNIT, what mem::take leaves behind
UNIT == Dyn(UNIT_TYPE, "()", "ReadWrite", FALSE)

IntVals == {"1", "2"}
TextVals == {"a", "b"}

ValsOf(ty) == IF ty = I64 THEN IntVals ELSE IF ty = IMMUTABLE_STRING THEN TextVals ELSE {"()"}

\* The k-th sample Dynamic of a runtime type; text sample 2 is a shared value.
Sample(ty, k, access) ==
    IF ty = I64 THEN Dyn(I64, IF k = 1 THEN "1" ELSE "2", access, FALSE)
    ELSE Dyn(IMMUTABLE_STRING, IF k = 1 THEN "a" ELSE "b", access, k = 2)

is_read_only(d) == d.access = "ReadOnly"

flatten_in_place(d) == [d EXCEPT !.shared = FALSE]

Dynamic_from(T, r) == Dyn(RuntimeOf(T), r, "ReadWrite", FALSE)

(***************************************************************************)
(* Reserved call names; a name is a sequence of segments                   *)
(***************************************************************************)
FN_IDX_SET == <<"index$", "set$">>
FN_SET == <<"set$">>

starts_with(s, p) == Len(s) >= Len(p) /\ SubSeq(s, 1, Len(p)) = p

FnNames == {FN_IDX_SET, <<"set$", "x">>, <<"get$", "x">>}

(***************************************************************************)
(* Errors and results                                                      *)
(***************************************************************************)
Error(code, name, pos) == [code |-> code, name |-> name, pos |-> pos]
NoError == Error("-", <<>>, "-")

ErrorNonPureMethodCallOnConstant(name, pos) == Error("ErrorNonPureMethodCallOnConstant", name, pos)

Position_NONE == "NONE"

NativeErrors == {Error("ErrorRuntime", <<>>, "1:1")}

Ok(d) == [kind |-> "Ok", val |-> d, err |-> NoError]
Err(e) == [kind |-> "Err", val |-> UNIT, err |-> e]
Panic(msg) == [kind |-> "Panic", val |-> UNIT, err |-> Error(msg, <<>>, "-")]
NoResult == [kind |-> "None", val |-> UNIT, err |-> NoError]

EXPECT_ARGS == "arguments"

(***************************************************************************)
(* Extractors                                                              *)
(***************************************************************************)
Extracted(ok, v, slot, msg) == [ok |-> ok, v |-> v, slot |-> slot, msg |-> msg]

\* by_ref with the type check of write_lock left out
by_ref_unchecked(T, data) == Extracted(TRUE, "*", data, "")

\* by_ref that moves the value out of the slot
by_ref_take(T, data) ==
    IF data.ty = T THEN Extracted(TRUE, "*", UNIT, "")
    ELSE Extracted(FALSE, "-", data, "checked")

\* data.write_lock::<T>().expect("checked"): a handle into the slot, which keeps its value
by_ref(T, data) ==
    IF data.ty = T THEN Extracted(TRUE, "*", data, "")
    ELSE Extracted(FALSE, "-", data, "checked")

\* by_value that clones out of the slot in the generic case instead of taking
by_value_clone(T, data) ==
    IF T = REF_STR
    THEN LET flat == flatten_in_place(data) IN
         IF flat.ty = IMMUTABLE_STRING THEN Extracted(TRUE, flat.val, flat, "")
         ELSE Extracted(FALSE, "-", flat, "&str")
    ELSE IF T = OWNED_STRING
    THEN IF data.ty = IMMUTABLE_STRING THEN Extracted(TRUE, data.val, UNIT, "")
         ELSE Extracted(FALSE, "-", UNIT, "ImmutableString")
    ELSE IF data.ty = T THEN Extracted(TRUE, data.val, data, "")
         ELSE Extracted(FALSE, "-", data, "cast")

\* by_value that takes the slot for &str as well
by_value_take_str(T, data) ==
    IF T \in {REF_STR, OWNED_STRING}
    THEN IF data.ty = IMMUTABLE_STRING THEN Extracted(TRUE, data.val, UNIT, "")
         ELSE Extracted(FALSE, "-", UNIT, "ImmutableString")
    ELSE IF data.ty = T THEN Extracted(TRUE, data.val, UNIT, "")
         ELSE Extracted(FALSE, "-", UNIT, "cast")

by_value(T, data) ==
    IF T = REF_STR
    THEN \* data.flatten_in_place(); data.as_str_ref().expect("&str"): a view, the slot keeps the text
         LET flat == flatten_in_place(data) IN
         IF flat.ty = IMMUTABLE_STRING THEN Extracted(TRUE, flat.val, flat, "")
         ELSE Extracted(FALSE, "-", flat, "&str")
    ELSE IF T = OWNED_STRING
    THEN \* mem::take(data).into_string().expect("ImmutableString")
         IF data.ty = IMMUTABLE_STRING THEN Extracted(TRUE, data.val, UNIT, "")
         ELSE Extracted(FALSE, "-", UNIT, "ImmutableString")
    ELSE \* mem::take(data).cast::<T>()
         IF data.ty = T THEN Extracted(TRUE, data.val, UNIT, "")
         ELSE Extracted(FALSE, "-", UNIT, "cast")

(***************************************************************************)
(* check_constant!: TRUE when the call is denied                           *)
(***************************************************************************)
\* guard without the index-assignment arm
check_constant_no_idx(abi, name, a) ==
    /\ abi = "Method"
    /\ Len(a) = 2
    /\ starts_with(name, FN_SET)
    /\ is_read_only(a[1])

\* guard without the property-setter arm
check_constant_no_set(abi, name, a) ==
    /\ abi = "Method"
    /\ Len(a) = 3
    /\ name = FN_IDX_SET
    /\ is_read_only(a[1])

\* guard that ignores the argument count
check_constant_any_len(abi, name, a) ==
    /\ abi = "Method"
    /\ Len(a) > 0
    /\ (name = FN_IDX_SET \/ starts_with(name, FN_SET))
    /\ is_read_only(a[1])

check_constant(abi, name, a) ==
    /\ abi = "Method"
    /\ Len(a) > 0
    /\ CASE Len(a) = 3 -> name = FN_IDX_SET /\ is_read_only(a[1])
         [] Len(a) = 2 -> starts_with(name, FN_SET) /\ is_read_only(a[1])
         [] OTHER -> FALSE

(***************************************************************************)
(* def_register!: metadata and the per-position extractor                  *)
(***************************************************************************)
param_types(params) == [i \in 1..Len(params) |-> TypeId_of(params[i])]

\* return_type reporting the inner type for every variant
return_type_inner(fallible, RET) == TypeId_of(RET)

return_type(fallible, RET) ==
    IF fallible THEN TypeId_of(RhaiResultOf(RET)) ELSE TypeId_of(RET)

\* every Method parameter extracted by reference
clone_all_by_ref(abi, i) == IF abi = "Method" THEN "by_ref" ELSE "by_value"

\* $clone: by_ref for the first parameter of a Method, by_value otherwise
clone(abi, i) == IF abi = "Method" /\ i = 1 THEN "by_ref" ELSE "by_value"

\* result mapping that swallows the native error
map_result_swallow(fallible, RET, r) == Ok(Dynamic_from(RET, r.val))

\* Ok(Dynamic::from(r)) for a plain return, r.map(Dynamic::from) for a fallible one
map_result(fallible, RET, r) ==
    IF fallible /\ r.kind = "Err" THEN Err(r.err) ELSE Ok(Dynamic_from(RET, r.val))

(***************************************************************************)
(* State                                                                   *)
(***************************************************************************)
VARIABLES
    func,       \* the native function's shape: abi, ctx, fallible, params, ret
    record,     \* metadata of the registered function
    fn_name,    \* ctx.fn_name() of the current dispatch
    args,       \* the argument array
    args0,      \* the argument array as the caller passed it
    pc,         \* position in the closure
    idx,        \* number of slots _drain has yielded
    locals,     \* the extracted parameters
    log,        \* the steps the closure has taken
    calls,      \* number of executions of the native function
    received,   \* the parameters the native function was called with
    nativeRet,  \* what the native function returned
    written,    \* what the native function stored through its &mut receiver
    result      \* what the closure returned

vars == <<func, record, fn_name, args, args0, pc, idx, locals, log, calls, received, nativeRet, written, result>>

Arity == Len(func.params)

NoRecord == [registered |-> FALSE, abi |-> "-", param_types |-> <<>>, return_type |-> TypeId_of(UNIT_TYPE)]

RECURSIVE ParamLists(_, _)
\* the parameter lists of arity n; first tells whether position 1 is a &mut receiver
ParamLists(n, first) ==
    IF n = 0 THEN {<<>>}
    ELSE LET heads == IF first THEN MutParamTypes ELSE ValueParamTypes
         IN  { <<h>> \o t : h \in heads, t \in ParamLists(n - 1, FALSE) }

Shapes(maxArity, ctxs, rets) ==
    UNION { { [abi |-> "Pure", ctx |-> c, fallible |-> f, params |-> p, ret |-> r] :
                c \in ctxs, f \in BOOLEAN, p \in ParamLists(n, FALSE), r \in rets }
            \cup
            { [abi |-> "Method", ctx |-> c, fallible |-> f, params |-> p, ret |-> r] :
                c \in ctxs, f \in BOOLEAN, p \in IF n = 0 THEN {} ELSE ParamLists(n, TRUE), r \in rets }
          : n \in 0..maxArity }

InitWith(shapes) ==
    /\ func \in shapes
    /\ record = NoRecord
    /\ fn_name = <<>>
    /\ args = <<>>
    /\ args0 = <<>>
    /\ pc = "register"
    /\ idx = 0
    /\ locals = <<>>
    /\ log = <<>>
    /\ calls = 0
    /\ received = <<>>
    /\ nativeRet = NoResult
    /\ written = "-"
    /\ result = NoResult

Init == InitWith(Shapes(MaxArity, BOOLEAN, ReturnTypes))

InitAny == InitWith(Shapes(MaxAnyArity, BOOLEAN, {I64}))

(***************************************************************************)
(* Actions                                                                 *)
(***************************************************************************)
\* The function is adapted; the record holds the closure's convention and the metadata.
Register ==
    /\ pc = "register"
    /\ record' = [registered |-> TRUE,
                  abi |-> func.abi,
                  param_types |-> param_types(func.params),
                  return_type |-> return_type(func.fallible, func.ret)]
    /\ pc' = "idle"
    /\ UNCHANGED <<func, fn_name, args, args0, idx, locals, log, calls, received, nativeRet, written, result>>

StartDispatch(name, a) ==
    /\ pc = "idle"
    /\ fn_name' = name
    /\ args' = a
    /\ args0' = a
    /\ pc' = "guard"
    /\ UNCHANGED <<func, record, idx, locals, log, calls, received, nativeRet, written, result>>

\* The engine calls the closure with arguments of the registered number and types.
Dispatch ==
    \E name \in FnNames, pick \in [1..Arity -> 1..2], access \in {"ReadOnly", "ReadWrite"} :
        StartDispatch(name,
            [i \in 1..Arity |->
                Sample(RuntimeOf(func.params[i]), pick[i], IF i = 1 THEN access ELSE "ReadWrite")])

AnyDynamics(access) ==
    {Sample(I64, 1, access), Sample(IMMUTABLE_STRING, 1, access), Sample(IMMUTABLE_STRING, 2, access)}

\* The closure is called with an arbitrary argument array.
DispatchAny ==
    \E name \in {FN_IDX_SET, <<"get$", "x">>}, n \in 0..(Arity + 1), access \in {"ReadOnly", "ReadWrite"} :
        \E a \in [1..n -> AnyDynamics("ReadWrite")] :
            StartDispatch(name, [i \in 1..n |-> IF i = 1 THEN [a[i] EXCEPT !.access = access] ELSE a[i]])

\* check_constant!($abi, ctx, args)
Guard ==
    /\ pc = "guard"
    /\ log' = Append(log, [op |-> "guard", i |-> 0])
    /\ IF check_constant(func.abi, fn_name, args)
       THEN /\ result' = Err(ErrorNonPureMethodCallOnConstant(fn_name, Position_NONE))
            /\ pc' = "done"
       ELSE /\ result' = result
            /\ pc' = IF Arity = 0 THEN "call" ELSE "extract"
    /\ UNCHANGED <<func, record, fn_name, args, args0, idx, locals, calls, received, nativeRet, written>>

\* $let $par = ($clone)(_drain.next().expect(EXPECT_ARGS));
Extract ==
    /\ pc = "extract"
    /\ LET i == idx + 1 IN
       IF i > Len(args)
       THEN /\ result' = Panic(EXPECT_ARGS)
            /\ pc' = "panic"
            /\ UNCHANGED <<args, idx, locals, log>>
       ELSE LET T == func.params[i]
                mode == clone(func.abi, i)
                r == IF mode = "by_ref" THEN by_ref(T, args[i]) ELSE by_value(T, args[i])
            IN  /\ args' = [args EXCEPT ![i] = r.slot]
                /\ log' = Append(log, [op |-> mode, i |-> i])
                /\ IF r.ok
                   THEN /\ locals' = Append(locals, [mode |-> mode, slot |-> i, v |-> r.v])
                        /\ idx' = i
                        /\ pc' = IF i = Arity THEN "call" ELSE "extract"
                        /\ result' = result
                   ELSE /\ result' = Panic(r.msg)
                        /\ pc' = "panic"
                        /\ UNCHANGED <<idx, locals>>
    /\ UNCHANGED <<func, record, fn_name, args0, calls, received, nativeRet, written>>

NativeOutcomes ==
    { [kind |-> "Ok", val |-> v, err |-> NoError] : v \in ValsOf(func.ret) }
    \cup (IF func.fallible THEN { [kind |-> "Err", val |-> "-", err |-> e] : e \in NativeErrors } ELSE {})

\* What the native function reads through its i-th parameter.
Deref(l) == IF l.mode = "by_ref" THEN args[l.slot].val ELSE l.v

\* self($($arg),*) or self(ctx, $($arg),*), then the result is mapped.
Call ==
    /\ pc = "call"
    /\ calls' = calls + 1
    /\ log' = Append(log, [op |-> "call", i |-> 0])
    /\ received' = (IF func.ctx THEN <<"ctx">> ELSE <<>>) \o [i \in 1..Len(locals) |-> Deref(locals[i])]
    /\ \E out \in NativeOutcomes :
        /\ nativeRet' = out
        /\ result' = map_result(func.fallible, func.ret, out)
    /\ IF func.abi = "Method"
       THEN \E w \in ValsOf(args[1].ty) :
                /\ args' = [args EXCEPT ![1].val = w]
                /\ written' = w
       ELSE /\ args' = args
            /\ written' = written
    /\ pc' = "done"
    /\ UNCHANGED <<func, record, fn_name, args0, idx, locals>>

Next == Register \/ Dispatch \/ Guard \/ Extract \/ Call

NextAny == Register \/ DispatchAny \/ Guard \/ Extract \/ Call

Spec == Init /\ [][Next]_vars

SpecAny == InitAny /\ [][NextAny]_vars

TypeOK ==
    /\ pc \in {"register", "idle", "guard", "extract", "call", "done", "panic"}
    /\ idx \in 0..Arity
    /\ calls \in 0..1
    /\ result.kind \in {"None", "Ok", "Err", "Panic"}

(***************************************************************************)
(* Properties                                                              *)
(***************************************************************************)
\* The closure has been entered.
Dispatched == pc \notin {"register", "idle"}

\* check_constant! has run.
Guarded == pc \notin {"register", "idle", "guard"}

ReadOnlyReceiver == Len(args0) > 0 /\ args0[1].access = "ReadOnly"

IndexSetCall == Len(args0) = 3 /\ fn_name = <<"index$", "set$">>

SetterCall == Len(args0) = 2 /\ Len(fn_name) >= 1 /\ fn_name[1] = "set$"

HandleGiven == \E k \in 1..Len(log) : log[k].op = "by_ref"

\* C1: a Method dispatch named FN_IDX_SET with exactly 3 slots and a read-only
\* slot 0 returns ErrorNonPureMethodCallOnConstant(call name, Position::NONE);
\* the native function is never executed and no slot is changed.
C1_IndexSetOnConstantRejected ==
    (Dispatched /\ func.abi = "Method" /\ IndexSetCall /\ ReadOnlyReceiver) =>
        /\ calls = 0
        /\ args = args0
        /\ pc \in {"guard", "done"}
        /\ pc = "done" =>
            /\ result.kind = "Err"
            /\ result.err = [code |-> "ErrorNonPureMethodCallOnConstant", name |-> fn_name, pos |-> "NONE"]
            /\ log = <<[op |-> "guard", i |-> 0]>>

C1_Witness ==
    pc = "done" /\ func.abi = "Method" /\ IndexSetCall /\ ReadOnlyReceiver /\ result.kind = "Err"

\* C2: the guard rejects a dispatch if and only if the convention is Method,
\* slot 0 is read-only and the call is an index assignment with 3 slots or a
\* property setter with 2 slots; in every other case it proceeds silently and
\* the native function is called.
C2_GuardRejectsIff ==
    Guarded =>
        LET deny == func.abi = "Method" /\ ReadOnlyReceiver /\ (IndexSetCall \/ SetterCall)
            rejected == pc = "done" /\ calls = 0 /\ result.kind = "Err"
        IN  /\ rejected <=> deny
            /\ ~deny => /\ pc \in {"extract", "call", "done"}
                        /\ pc # "done" => result = NoResult
                        /\ pc = "done" => calls = 1

C2_Witness ==
    /\ pc = "done" /\ calls = 1
    /\ func.abi = "Method" /\ ReadOnlyReceiver
    /\ fn_name = <<"set$", "x">> /\ Len(args0) = 3

\* C3 as stated: in every Method dispatch with a read-only slot 0, whatever the
\* name and argument count, the native function gets no mutable handle to
\* slot 0 and slot 0 keeps its value.
C3_Claim ==
    (Dispatched /\ func.abi = "Method" /\ ReadOnlyReceiver) =>
        /\ ~HandleGiven
        /\ args[1] = args0[1]

\* C3 amended: in a Method dispatch with a read-only slot 0 that is an index
\* assignment with 3 slots or a property setter with 2 slots, the native
\* function gets no mutable handle to slot 0, is not executed, and slot 0
\* keeps its value.
C3_ConstantKeptOnDeniedCalls ==
    (Dispatched /\ func.abi = "Method" /\ ReadOnlyReceiver /\ (IndexSetCall \/ SetterCall)) =>
        /\ ~HandleGiven
        /\ calls = 0
        /\ written = "-"
        /\ args[1] = args0[1]

C3_Witness ==
    pc = "done" /\ func.abi = "Method" /\ ReadOnlyReceiver /\ SetterCall /\ calls = 0

\* C4 as stated: after a Pure dispatch every slot holds the value it held
\* before the call; only slot 0 of a Method call may differ.
C4_Claim ==
    pc = "done" =>
        \A i \in 1..Len(args) :
            (func.abi = "Method" /\ i = 1) \/ (args[i].ty = args0[i].ty /\ args[i].val = args0[i].val)

\* C4 amended: the native function of a Pure dispatch stores nothing into any
\* slot; after a completed call every slot extracted by value holds the empty
\* placeholder (), except the slot of a &str parameter, which keeps the text
\* it held; only slot 0 of a Method call may hold a value the native function
\* wrote.
C4_PureSlotsConsumedNotWritten ==
    (pc = "done" /\ calls = 1) =>
        /\ func.abi = "Pure" => written = "-"
        /\ \A i \in 1..Len(args) :
            (func.abi = "Method" /\ i = 1)
            \/ IF func.params[i] = <<"&str">>
               THEN args[i].ty = args0[i].ty /\ args[i].val = args0[i].val
               ELSE args[i] = [ty |-> <<"()">>, val |-> "()", access |-> "ReadWrite", shared |-> FALSE]

C4_Witness ==
    /\ pc = "done" /\ calls = 1 /\ func.abi = "Pure" /\ Len(args) = 3
    /\ func.params[1] = I64 /\ func.params[2] = REF_STR
    /\ args[1] = UNIT /\ args[2].val = "b"

\* C5: in a Method dispatch that passes the guard, by_ref hands the native
\* function the value slot 0 held before the call without resetting the slot,
\* and after the call slot 0 holds the value the native function left, with
\* its mutability flag unchanged.
C5_BorrowExposesPriorValue ==
    (func.abi = "Method" /\ pc \in {"extract", "call", "done"} /\ idx >= 1) =>
        /\ pc # "done" => args[1] = args0[1]
        /\ pc = "done" =>
            /\ received[IF func.ctx THEN 2 ELSE 1] = args0[1].val
            /\ args[1].val = written
            /\ args[1].access = args0[1].access
            /\ args[1].ty = args0[1].ty

C5_Witness ==
    /\ pc = "done" /\ func.abi = "Method" /\ calls = 1
    /\ written # args0[1].val /\ args[1].val = written
    /\ args0[1].access = "ReadOnly"

\* C6 as stated: for every target type, &str and String included, by_value
\* leaves the slot holding the empty placeholder and no longer the value or
\* text it held.
C6_Claim ==
    pc \in {"extract", "call"} =>
        \A k \in 1..Len(locals) :
            locals[k].mode = "by_value" =>
                /\ args[k] = [ty |-> <<"()">>, val |-> "()", access |-> "ReadWrite", shared |-> FALSE]
                /\ args[k].val # args0[k].val

\* C6 amended: for every target type other than &str, String included,
\* by_value leaves the slot holding the empty placeholder; for &str the slot
\* is normalised in place and still holds its text.
C6_ByValueEmptiesSlotExceptRefStr ==
    pc \in {"extract", "call"} =>
        \A k \in 1..Len(locals) :
            locals[k].mode = "by_value" =>
                IF func.params[k] = <<"&str">>
                THEN args[k] = [args0[k] EXCEPT !.shared = FALSE] /\ locals[k].v = args[k].val
                ELSE /\ args[k] = [ty |-> <<"()">>, val |-> "()", access |-> "ReadWrite", shared |-> FALSE]
                     /\ locals[k].v = args0[k].val

C6_Witness ==
    /\ pc = "call" /\ Len(locals) = 2
    /\ func.params[1] = OWNED_STRING /\ args[1] = UNIT /\ args0[1].val = "a"
    /\ func.params[2] = REF_STR /\ args0[2].shared /\ args[2].val = "b"

\* The arguments are of the number and types the function was registered with.
WellFormed ==
    /\ Len(args0) >= Arity
    /\ \A i \in 1..Arity :
        args0[i].ty = (IF func.params[i] \in {<<"&str">>, <<"String">>} THEN <<"ImmutableString">> ELSE func.params[i])

\* C7 as stated: a dispatch never aborts; with a slot whose runtime type does
\* not match the parameter's type it returns an error, and every dispatch
\* ends with a value or an error.
C7_Claim ==
    /\ pc # "panic"
    /\ pc = "done" => result.kind \in {"Ok", "Err"}
    /\ (pc = "done" /\ ~WellFormed) => result.kind = "Err"

\* C7 amended: when a slot the closure extracts is missing or its runtime type
\* does not match the parameter's type, the dispatch panics at that extraction
\* and the native function is not executed; a dispatch whose first N slots
\* hold the N parameter types never panics and ends with a value or an error.
C7_MismatchPanicsBeforeCall ==
    Dispatched =>
        /\ WellFormed => (pc # "panic" /\ (pc = "done" => result.kind \in {"Ok", "Err"}))
        /\ (pc = "call" \/ calls = 1) => WellFormed
        /\ pc = "panic" =>
            /\ result.kind = "Panic"
            /\ calls = 0
            /\ received = <<>>
            /\ \/ idx + 1 > Len(args0)
               \/ args0[idx + 1].ty # (IF func.params[idx + 1] \in {<<"&str">>, <<"String">>}
                                        THEN <<"ImmutableString">> ELSE func.params[idx + 1])

C7_Witness ==
    /\ pc = "panic" /\ Len(args0) >= Arity /\ idx = 1
    /\ func.params[2] = I64 /\ args0[2].ty = IMMUTABLE_STRING
    /\ result.err.code = "cast"

\* C8 as stated: for every variant, fallible or not, return_type() is the
\* identity of the inner type RET.
C8_Claim ==
    record.registered => record.return_type = [type_id |-> func.ret]

\* C8 amended: for an infallible function return_type() is the identity of
\* RET; for a fallible function, with or without call-context, Pure or Method,
\* it is the identity of the Result wrapper RhaiResultOf<RET>, which is not
\* the identity of RET.
C8_ReturnTypeOfFallibleIsWrapper ==
    record.registered =>
        /\ ~func.fallible => record.return_type = [type_id |-> func.ret]
        /\ func.fallible =>
            /\ record.return_type = [type_id |-> <<"Result">> \o func.ret]
            /\ record.return_type # [type_id |-> func.ret]
        /\ Len(record.param_types) = Arity
        /\ \A i \in 1..Arity : record.param_types[i] = [type_id |-> func.params[i]]

C8_Witness ==
    /\ record.registered /\ func.fallible /\ func.ctx /\ func.abi = "Method"
    /\ record.return_type = TypeId_of(RhaiResultOf(IMMUTABLE_STRING))

\* C9: when the dispatch passes the guard, an error returned by a fallible
\* native function is returned by the closure unmodified, and a success value
\* (or the value of an infallible function) is returned as Ok of that value
\* wrapped into a Dynamic.
C9_NativeOutcomePropagated ==
    (pc = "done" /\ calls = 1) =>
        /\ ~func.fallible => nativeRet.kind = "Ok"
        /\ nativeRet.kind = "Err" => (result.kind = "Err" /\ result.err = nativeRet.err)
        /\ nativeRet.kind = "Ok" =>
            /\ result.kind = "Ok"
            /\ result.val.val = nativeRet.val
            /\ result.val.ty = func.ret
            /\ result.err = NoError

C9_Witness ==
    pc = "done" /\ calls = 1 /\ func.fallible /\ nativeRet.kind = "Err" /\ result.kind = "Err"

\* The steps of a dispatch that is not rejected, in order.
ExpectedLog ==
    <<[op |-> "guard", i |-> 0]>>
    \o [i \in 1..Arity |-> [op |-> IF func.abi = "Method" /\ i = 1 THEN "by_ref" ELSE "by_value", i |-> i]]
    \o <<[op |-> "call", i |-> 0]>>

ExpectedReceived ==
    (IF func.ctx THEN <<"ctx">> ELSE <<>>) \o [i \in 1..Arity |-> args0[i].val]

InOrder ==
    /\ Len(log) <= Len(ExpectedLog)
    /\ log = SubSeq(ExpectedLog, 1, Len(log))
    /\ pc = "guard" => (log = <<>> /\ args = args0)
    /\ calls = (IF pc = "done" /\ log = ExpectedLog THEN 1 ELSE 0)
    /\ (pc = "done" /\ calls = 1) => received = ExpectedReceived

MutableReceiver == Len(args0) > 0 /\ args0[1].access = "ReadWrite"

\* C10 as stated: the guard runs first, the slots are extracted in increasing
\* index order, each once, by reference only for slot 0 of a Method, and the
\* native function is invoked once with the i-th extracted value as its i-th
\* parameter; when slot 0 is mutable the call succeeds with the native
\* function executed exactly once.
C10_Claim ==
    (Dispatched /\ Len(args0) = Arity) =>
        /\ InOrder
        /\ (pc = "done" /\ MutableReceiver) => (result.kind = "Ok" /\ calls = 1)

\* C10 amended: the same order of steps; when slot 0 is mutable the guard does
\* not reject, the native function is executed exactly once, and the call
\* succeeds unless the native function itself returns an error.
C10_StepsInOrderOnce ==
    (Dispatched /\ Len(args0) = Arity) =>
        /\ InOrder
        /\ (pc = "done" /\ MutableReceiver) =>
            /\ calls = 1
            /\ log = ExpectedLog
            /\ result.kind = nativeRet.kind
            /\ result.kind = "Err" => func.fallible

C10_Witness ==
    /\ pc = "done" /\ calls = 1 /\ Arity = 3 /\ func.ctx /\ func.abi = "Method"
    /\ MutableReceiver /\ IndexSetCall
    /\ received = <<"ctx", "1", "a", "2">>
    /\ result.kind = "Ok"
====
